---------------------------- MODULE Spec2Model ----------------------------
(***************************************************************************)
(* A model of the interactive shell of src/src/shell.py and of its         *)
(* top-level loop in src/src/main.py.                                      *)
(*                                                                         *)
(* The filesystem is a function from the absolute paths that exist (a path *)
(* is the sequence of its components, <<>> is "/") to nodes: a directory,  *)
(* a regular file with its content, or a symbolic link with its target.    *)
(* The session state is the working directory pwd.  The log is the         *)
(* sequence of the strings handed to logger.info, out the sequence of the  *)
(* strings written to standard output.                                     *)
(***************************************************************************)
EXTENDS Naturals, Sequences, FiniteSets, TLC

VARIABLES
    fs,          \* the filesystem
    pwd,         \* Shell.pwd
    log,         \* the strings passed to logger.info, in order
    out,         \* the strings written to standard output, in order
    pc,          \* where the process stands: prompt, dispatch, confirm, done, crashed
    cur,         \* the tokens of the line read last
    target,      \* the path rm is asking about while pc = "confirm"
    outcome,     \* how the command read last ended
    err,         \* the exception class of the failure, if it failed
    asked,       \* whether the command read last issued the confirmation prompt
    resp,        \* the answer given to that prompt
    calls,       \* the number of handler invocations so far
    exitReason,  \* why the loop ended
    nread,       \* the number of reads of the top-level loop so far
    fs0, pwd0, log0, out0, calls0,   \* fs, pwd, log, out, calls when cur was read
    prev         \* the command before cur: its tokens, outcome, pwd0 and fs0

vars == <<fs, pwd, log, out, pc, cur, target, outcome, err, asked, resp, calls,
          exitReason, nread, fs0, pwd0, log0, out0, calls0, prev>>

(***************************************************************************)
(* Bounds of the model.                                                    *)
(***************************************************************************)
\* the number of reads (lines, interrupts) of the top-level loop
MaxReads == 2
\* the number of symbolic links one resolution follows
MaxLinks == 2

(***************************************************************************)
(* Paths.                                                                  *)
(***************************************************************************)
Root == <<>>

Parent(p) == IF p = <<>> THEN <<>> ELSE SubSeq(p, 1, Len(p) - 1)

Basename(p) == IF p = <<>> THEN "" ELSE p[Len(p)]

IsPrefix(p, q) == Len(p) <= Len(q) /\ SubSeq(q, 1, Len(p)) = p

Rel(p, q) == SubSeq(q, Len(p) + 1, Len(q))

RECURSIVE PathStr(_)
PathStr(p) ==
    IF p = <<>> THEN "/"
    ELSE IF Len(p) = 1 THEN "/" \o p[1]
    ELSE PathStr(Parent(p)) \o "/" \o p[Len(p)]

\* Path(arg): whether the argument is absolute, and its components ("." is
\* dropped by the parse, ".." is kept until resolve()).
ParseArg(arg) ==
    CASE arg = "/"     -> [abs |-> TRUE,  comps |-> <<>>]
      [] arg = "."     -> [abs |-> FALSE, comps |-> <<>>]
      [] arg = ".."    -> [abs |-> FALSE, comps |-> <<"..">>]
      [] arg = "../.." -> [abs |-> FALSE, comps |-> <<"..", "..">>]
      [] arg = "d/f"   -> [abs |-> FALSE, comps |-> <<"d", "f">>]
      [] arg = "f/x"   -> [abs |-> FALSE, comps |-> <<"f", "x">>]
      [] arg = "x/x"   -> [abs |-> FALSE, comps |-> <<"x", "x">>]
      [] arg = "../x"  -> [abs |-> FALSE, comps |-> <<"..", "x">>]
      [] OTHER         -> [abs |-> FALSE, comps |-> <<arg>>]

\* self.pwd / Path(arg)
JoinPath(p, arg) ==
    LET a == ParseArg(arg) IN IF a.abs THEN a.comps ELSE p \o a.comps

(***************************************************************************)
(* The filesystem.                                                         *)
(***************************************************************************)
Dir == [k |-> "dir", c |-> "", t |-> <<>>]
File(content) == [k |-> "file", c |-> content, t |-> <<>>]
Link(to) == [k |-> "link", c |-> "", t |-> to]

\* Path.resolve(): the components are walked from the root; ".." steps to the
\* parent of the path so far, a symbolic link is replaced by its target, a
\* component that does not exist is kept as it is.
RECURSIVE Walk(_, _, _, _)
Walk(F, at, rest, fuel) ==
    IF rest = <<>> THEN at
    ELSE LET c == Head(rest)
             n == Append(at, c)
         IN  IF c = ".." THEN Walk(F, Parent(at), Tail(rest), fuel)
             ELSE IF n \in DOMAIN F /\ F[n].k = "link" /\ fuel > 0
                  THEN Walk(F, <<>>, F[n].t \o Tail(rest), fuel - 1)
                  ELSE Walk(F, n, Tail(rest), fuel)

Resolve(F, p) == Walk(F, <<>>, p, MaxLinks)

\* Path.exists() and Path.is_dir() follow symbolic links.
Exists(F, p) == Resolve(F, p) \in DOMAIN F /\ F[Resolve(F, p)].k # "link"

IsDir(F, p) == Exists(F, p) /\ F[Resolve(F, p)].k = "dir"

Under(F, p) == {q \in DOMAIN F : IsPrefix(p, q)}

Children(F, p) == {q \in DOMAIN F : Len(q) = Len(p) + 1 /\ IsPrefix(p, q)}

\* The subtree at p, with paths relative to p.
Subtree(F, p) == [r \in {Rel(p, q) : q \in Under(F, p)} |-> F[p \o r]]

HasLink(F, p) == \E q \in Under(F, p) : F[q].k = "link"

Restrict(F, S) == [q \in S |-> F[q]]

\* F with the subtree of G at src put at dst.
Graft(F, G, src, dst) ==
    LET new == {dst \o Rel(src, q) : q \in Under(G, src)}
    IN  [n \in (DOMAIN F) \cup new |->
            IF n \in new THEN G[src \o Rel(dst, n)] ELSE F[n]]


\* The longest proper prefix of p that exists.
RECURSIVE ExistingAncestor(_, _)
ExistingAncestor(F, p) ==
    IF Parent(p) \in DOMAIN F \/ p = <<>> THEN Parent(p)
    ELSE ExistingAncestor(F, Parent(p))

\* What the kernel answers when p, which does not exist, is to be created.
CreateErr(F, p) ==
    LET a == ExistingAncestor(F, p)
    IN  IF F[a].k # "dir" THEN "ENOTDIR"
        ELSE IF a = Parent(p) THEN "ok" ELSE "ENOENT"

\* The prefixes of p, p included, that do not exist yet.
Missing(F, p) == {SubSeq(p, 1, i) : i \in 0..Len(p)} \ DOMAIN F

\* os.makedirs(p)
MkDirs(F, p) ==
    [n \in (DOMAIN F) \cup Missing(F, p) |-> IF n \in DOMAIN F THEN F[n] ELSE Dir]

\* shutil.rmtree(p), os.remove(p)
RmTree(F, p) == Restrict(F, (DOMAIN F) \ Under(F, p))

(***************************************************************************)
(* What a handler returns: the filesystem and working directory it leaves, *)
(* the lines it printed, and how it ended: "ok", "raise" (with the         *)
(* exception class and message) or "confirm" (rm waits at its prompt for   *)
(* the path in arg).                                                       *)
(***************************************************************************)
Ok(F, P, lines) ==
    [fs |-> F, pwd |-> P, out |-> lines, st |-> "ok", exc |-> "none", msg |-> "",
     arg |-> <<>>]

Raise(F, P, lines, exc, msg) ==
    [fs |-> F, pwd |-> P, out |-> lines, st |-> "raise", exc |-> exc, msg |-> msg,
     arg |-> <<>>]

AskConfirm(F, P, path) ==
    [fs |-> F, pwd |-> P, out |-> <<>>, st |-> "confirm", exc |-> "none", msg |-> "",
     arg |-> path]

Quoted(p) == "'" \o PathStr(p) \o "'"

ENOENT(p) == "[Errno 2] No such file or directory: " \o Quoted(p)
ENOTDIR(p) == "[Errno 20] Not a directory: " \o Quoted(p)
EEXIST(p) == "[Errno 17] File exists: " \o Quoted(p)
EISDIR(p) == "[Errno 21] Is a directory: " \o Quoted(p)

\* The path os.makedirs(p) fails on: the first component below a regular file.
FirstBelow(F, p) == SubSeq(p, 1, Len(ExistingAncestor(F, p)) + 1)

\* shutil.copy(src, dst), src an existing regular file
ShutilCopy(F, P, src, dst) ==
    LET into == IsDir(F, dst)
        real == IF into THEN Append(dst, Basename(src)) ELSE dst
    IN  IF real = src
        THEN Raise(F, P, <<>>, "SameFileError",
                   "PosixPath(" \o Quoted(src) \o ") and "
                   \o (IF into THEN Quoted(real) ELSE "PosixPath(" \o Quoted(real) \o ")")
                   \o " are the same file")
        ELSE IF real \in DOMAIN F
        THEN IF F[real].k = "dir"
             THEN Raise(F, P, <<>>, "IsADirectoryError", EISDIR(real))
             ELSE Ok([F EXCEPT ![real] = File(F[src].c)], P, <<>>)
        ELSE CASE CreateErr(F, real) = "ENOTDIR" ->
                      Raise(F, P, <<>>, "NotADirectoryError", ENOTDIR(real))
               [] CreateErr(F, real) = "ENOENT" ->
                      Raise(F, P, <<>>, "FileNotFoundError", ENOENT(real))
               [] OTHER -> Ok(Graft(F, F, src, real), P, <<>>)

\* shutil.copytree(src, dst), src an existing directory: the entries of each
\* directory are listed before its copy is created.
ShutilCopytree(F, P, src, dst) ==
    IF dst \in DOMAIN F
    THEN Raise(F, P, <<>>, "FileExistsError", EEXIST(dst))
    ELSE IF F[ExistingAncestor(F, dst)].k # "dir"
    THEN Raise(F, P, <<>>, "NotADirectoryError", ENOTDIR(FirstBelow(F, dst)))
    ELSE Ok(Graft(MkDirs(F, dst), F, src, dst), P, <<>>)

\* A copytree whose destination lies below an existing subdirectory of the
\* source copies its own output without end.
Runaway(F, src, dst) ==
    /\ IsPrefix(src, dst)
    /\ Len(dst) > Len(src) + 1
    /\ dst \notin DOMAIN F
    /\ SubSeq(dst, 1, Len(src) + 1) \in DOMAIN F
    /\ F[ExistingAncestor(F, dst)].k = "dir"

\* shutil.move(src, dst), src an existing file or directory
ShutilMove(F, P, src, dst) ==
    LET into == IsDir(F, dst)
        real == IF into THEN Append(dst, Basename(src)) ELSE dst
    IN  IF into /\ dst = src THEN Ok(F, P, <<>>)
        ELSE IF into /\ src = <<>>
        THEN Raise(F, P, <<>>, "Error",
                   "Destination path '" \o PathStr(dst) \o "/' already exists")
        ELSE IF into /\ real \in DOMAIN F
        THEN Raise(F, P, <<>>, "Error",
                   "Destination path " \o Quoted(real) \o " already exists")
        ELSE IF F[src].k = "file"
        THEN IF real \in DOMAIN F
             THEN Ok(Graft(RmTree(F, src), F, src, real), P, <<>>)
             ELSE CASE CreateErr(F, real) = "ENOTDIR" ->
                           Raise(F, P, <<>>, "NotADirectoryError", ENOTDIR(real))
                    [] CreateErr(F, real) = "ENOENT" ->
                           Raise(F, P, <<>>, "FileNotFoundError", ENOENT(real))
                    [] OTHER -> Ok(Graft(RmTree(F, src), F, src, real), P, <<>>)
        ELSE IF IsPrefix(src, real)
        THEN Raise(F, P, <<>>, "Error",
                   "Cannot move a directory " \o Quoted(src) \o " into itself "
                   \o Quoted(dst) \o ".")
        ELSE IF real \in DOMAIN F
        THEN Raise(F, P, <<>>, "FileExistsError", EEXIST(real))
        ELSE CASE CreateErr(F, real) = "ENOTDIR" ->
                      Raise(F, P, <<>>, "NotADirectoryError",
                            ENOTDIR(FirstBelow(F, real)))
               [] OTHER -> Ok(RmTree(Graft(MkDirs(F, real), F, src, real), src),
                              P, <<>>)

(***************************************************************************)
(* The command handlers of Shell.                                          *)
(***************************************************************************)
\* Path.home()
Home == <<"home">>

\* The names the model uses, in the order sorted() gives them.
NameOrder == <<"-l", "-r", "d", "f", "home", "l", "x", "~">>

\* sorted(path.iterdir()), as names
Listing(F, p) == SelectSeq(NameOrder, LAMBDA n : Append(p, n) \in Children(F, p))

\* The first character of stat.filemode(item.stat().st_mode); stat follows links.
ModeChar(F, q) == IF IsDir(F, q) THEN "d" ELSE "-"

\* One line of ls: the name, in detailed mode after the mode character (owner,
\* group, size and time are left out of the model).
LsLine(F, p, n, detailed) ==
    IF detailed THEN ModeChar(F, Append(p, n)) \o " " \o n ELSE n

\* The listing loop of ls: item.stat() fails on a dangling link, after the
\* lines before it were printed.
RECURSIVE LsLoop(_, _, _, _, _, _)
LsLoop(F, P, p, names, detailed, printed) ==
    IF names = <<>> THEN Ok(F, P, printed)
    ELSE IF detailed /\ ~Exists(F, Append(p, Head(names)))
    THEN Raise(F, P, printed, "FileNotFoundError", ENOENT(Append(p, Head(names))))
    ELSE LsLoop(F, P, p, Tail(names), detailed,
                Append(printed, LsLine(F, p, Head(names), detailed)))

ls(F, P, args) ==
    LET detailed == \E i \in 1..Len(args) : args[i] = "-l"
        paths == SelectSeq(args, LAMBDA a : a # "-l")
        path == Resolve(F, IF paths # <<>> THEN JoinPath(P, paths[Len(paths)]) ELSE P)
    IN  IF ~Exists(F, path)
        THEN Raise(F, P, <<>>, "FileNotFoundError", "No such file or directory")
        ELSE IF ~IsDir(F, path)
        THEN Raise(F, P, <<>>, "NotADirectoryError", "Not a directory")
        ELSE LsLoop(F, P, path, Listing(F, path), detailed, <<>>)

\* cd with ".." taken two levels up.
cdParentOfParent(F, P, args) ==
    IF Len(args) # 1
    THEN Raise(F, P, <<>>, "ValueError", "cd takes exactly one argument")
    ELSE LET arg == args[1]
             new_path == Resolve(F, IF arg = "~" THEN Home
                                    ELSE IF arg = ".." THEN Parent(Parent(P))
                                    ELSE JoinPath(P, arg))
         IN  IF ~Exists(F, new_path)
             THEN Raise(F, P, <<>>, "FileNotFoundError", "No such file or directory")
             ELSE IF ~IsDir(F, new_path)
             THEN Raise(F, P, <<>>, "NotADirectoryError", "Not a directory")
             ELSE Ok(F, new_path, <<>>)

\* cd without the is_dir() check.
cdNoDirCheck(F, P, args) ==
    IF Len(args) # 1
    THEN Raise(F, P, <<>>, "ValueError", "cd takes exactly one argument")
    ELSE LET arg == args[1]
             new_path == Resolve(F, IF arg = "~" THEN Home
                                    ELSE IF arg = ".." THEN Parent(P)
                                    ELSE JoinPath(P, arg))
         IN  IF ~Exists(F, new_path)
             THEN Raise(F, P, <<>>, "FileNotFoundError", "No such file or directory")
             ELSE Ok(F, new_path, <<>>)

\* cd without the exists() and is_dir() checks.
cdUnchecked(F, P, args) ==
    IF Len(args) # 1
    THEN Raise(F, P, <<>>, "ValueError", "cd takes exactly one argument")
    ELSE LET arg == args[1]
             new_path == Resolve(F, IF arg = "~" THEN Home
                                    ELSE IF arg = ".." THEN Parent(P)
                                    ELSE JoinPath(P, arg))
         IN  Ok(F, new_path, <<>>)

cd(F, P, args) ==
    IF Len(args) # 1
    THEN Raise(F, P, <<>>, "ValueError", "cd takes exactly one argument")
    ELSE LET arg == args[1]
             new_path == Resolve(F, IF arg = "~" THEN Home
                                    ELSE IF arg = ".." THEN Parent(P)
                                    ELSE JoinPath(P, arg))
         IN  IF ~Exists(F, new_path)
             THEN Raise(F, P, <<>>, "FileNotFoundError", "No such file or directory")
             ELSE IF ~IsDir(F, new_path)
             THEN Raise(F, P, <<>>, "NotADirectoryError", "Not a directory")
             ELSE Ok(F, new_path, <<>>)

cat(F, P, args) ==
    IF Len(args) # 1
    THEN Raise(F, P, <<>>, "ValueError", "cat takes exactly one argument")
    ELSE LET path == Resolve(F, JoinPath(P, args[1]))
         IN  IF ~Exists(F, path)
             THEN Raise(F, P, <<>>, "FileNotFoundError", "No such file or directory")
             ELSE IF IsDir(F, path)
             THEN Raise(F, P, <<>>, "IsADirectoryError", "Is a directory")
             ELSE Ok(F, P, <<F[path].c>>)

\* The leading -r of cp and rm.
HasR(args) == Len(args) > 0 /\ args[1] = "-r"

StripR(args) == IF HasR(args) THEN Tail(args) ELSE args

\* cp without the check that a directory needs -r.
cpNoFlagCheck(F, P, args0) ==
    LET args == StripR(args0)
    IN  IF Len(args) # 2
        THEN Raise(F, P, <<>>, "ValueError", "cp requires source and destination")
        ELSE LET source == Resolve(F, JoinPath(P, args[1]))
                 dest == Resolve(F, JoinPath(P, args[2]))
             IN  IF ~Exists(F, source)
                 THEN Raise(F, P, <<>>, "FileNotFoundError", "No such file or directory")
                 ELSE IF IsDir(F, source)
                 THEN ShutilCopytree(F, P, source, dest)
                 ELSE ShutilCopy(F, P, source, dest)

cp(F, P, args0) ==
    LET r == HasR(args0)
        args == StripR(args0)
    IN  IF Len(args) # 2
        THEN Raise(F, P, <<>>, "ValueError", "cp requires source and destination")
        ELSE LET source == Resolve(F, JoinPath(P, args[1]))
                 dest == Resolve(F, JoinPath(P, args[2]))
             IN  IF ~Exists(F, source)
                 THEN Raise(F, P, <<>>, "FileNotFoundError", "No such file or directory")
                 ELSE IF IsDir(F, source) /\ ~r
                 THEN Raise(F, P, <<>>, "IsADirectoryError", "omit -r for directories")
                 ELSE IF IsDir(F, source)
                 THEN ShutilCopytree(F, P, source, dest)
                 ELSE ShutilCopy(F, P, source, dest)

\* mv that copies and leaves the source.
mvCopies(F, P, args) ==
    IF Len(args) # 2
    THEN Raise(F, P, <<>>, "ValueError", "mv requires source and destination")
    ELSE LET source == Resolve(F, JoinPath(P, args[1]))
             dest == Resolve(F, JoinPath(P, args[2]))
         IN  IF ~Exists(F, source)
             THEN Raise(F, P, <<>>, "FileNotFoundError", "No such file or directory")
             ELSE IF IsDir(F, source)
             THEN ShutilCopytree(F, P, source, dest)
             ELSE ShutilCopy(F, P, source, dest)

mv(F, P, args) ==
    IF Len(args) # 2
    THEN Raise(F, P, <<>>, "ValueError", "mv requires source and destination")
    ELSE LET source == Resolve(F, JoinPath(P, args[1]))
             dest == Resolve(F, JoinPath(P, args[2]))
         IN  IF ~Exists(F, source)
             THEN Raise(F, P, <<>>, "FileNotFoundError", "No such file or directory")
             ELSE ShutilMove(F, P, source, dest)

\* The guard of rm without the parent directory.
RmGuardRootOnly(F, P, path) ==
    IF path = Root THEN "cannot remove root directory" ELSE ""

\* The two guards of rm.
RmGuard(F, P, path) ==
    IF path = Root THEN "cannot remove root directory"
    ELSE IF path = Resolve(F, Parent(P)) THEN "cannot remove parent directory"
    ELSE ""

rm(F, P, args0) ==
    LET r == HasR(args0)
        args == StripR(args0)
    IN  IF Len(args) # 1
        THEN Raise(F, P, <<>>, "ValueError", "rm takes exactly one argument")
        ELSE LET path == Resolve(F, JoinPath(P, args[1]))
             IN  IF RmGuard(F, P, path) # ""
                 THEN Raise(F, P, <<>>, "PermissionError", RmGuard(F, P, path))
                 ELSE IF ~Exists(F, path)
                 THEN Raise(F, P, <<>>, "FileNotFoundError", "No such file or directory")
                 ELSE IF IsDir(F, path) /\ ~r
                 THEN Raise(F, P, <<>>, "IsADirectoryError", "omit -r for directories")
                 ELSE IF IsDir(F, path)
                 THEN AskConfirm(F, P, path)
                 ELSE Ok(RmTree(F, path), P, <<>>)

\* str.lower() on the strings the model reads.
Lower(s) ==
    CASE s = "Y" -> "y"
      [] s = "YES" -> "yes"
      [] s = "Exit" -> "exit"
      [] s = "EXIT" -> "exit"
      [] s = "LS" -> "ls"
      [] OTHER -> s

\* The prompt of rm -r and what rm does with the answer.
ConfirmPrompt(path) == "Remove directory " \o Quoted(path) \o "? (y/n) "

\* The comparison of the answer without lower().
ConfirmedExact(answer) == answer = "y"

Confirmed(answer) == Lower(answer) = "y"

rmAnswered(F, P, path, answer) ==
    IF ~Confirmed(answer) THEN Ok(F, P, <<>>) ELSE Ok(RmTree(F, path), P, <<>>)

(***************************************************************************)
(* Shell.execute_command and the loop of main.                             *)
(***************************************************************************)
Commands == {"ls", "cd", "cat", "cp", "mv", "rm"}

IsCommand(cmd) == cmd \in Commands

Handler(cmd, F, P, args) ==
    CASE cmd = "ls"  -> ls(F, P, args)
      [] cmd = "cd"  -> cd(F, P, args)
      [] cmd = "cat" -> cat(F, P, args)
      [] cmd = "cp"  -> cp(F, P, args)
      [] cmd = "mv"  -> mv(F, P, args)
      [] cmd = "rm"  -> rm(F, P, args)

\* A log line that holds the command name only.
JoinTokensFirstOnly(tokens) == tokens[1]

\* " ".join(tokens)
RECURSIVE JoinTokens(_)
JoinTokens(tokens) ==
    IF Len(tokens) = 1 THEN tokens[1]
    ELSE tokens[1] \o " " \o JoinTokens(Tail(tokens))

ErrorEntry(msg) == "ERROR: " \o msg

UnknownError == "Unknown command"

\* except FileNotFoundError in the place of except Exception.
CatchesNotFoundOnly(exc) == exc = "FileNotFoundError"

\* except Exception: every exception class but KeyboardInterrupt
Catches(exc) == exc # "KeyboardInterrupt"

\* line.strip().lower() == "exit"
IsExit(tokens) == Len(tokens) = 1 /\ Lower(tokens[1]) = "exit"

MainPrompt(P) == PathStr(P) \o "$ "

Reminder == "\nUse 'exit' to quit."

(***************************************************************************)
(* The lines the model reads and the answers it gives to rm's prompt.      *)
(***************************************************************************)
Lines ==
    {<<"exit">>, <<"EXIT">>, <<"foo">>, <<"LS", "d">>}
    \cup {<<"ls">>, <<"ls", "-l">>, <<"ls", "x">>, <<"ls", "f">>}
    \cup {<<"cd">>} \cup {<<"cd", a>> : a \in {"d", "f", "x", "..", "~", "l"}}
    \cup {<<"cat">>, <<"cat", "f">>, <<"cat", "d">>, <<"cat", "x">>}
    \cup {<<"cp", "f">>, <<"cp", "f", "x">>, <<"cp", "f", "d">>, <<"cp", "f", "f">>,
          <<"cp", "d", "x">>, <<"cp", "x", "f">>}
    \cup {<<"cp", "-r", "d", t>> : t \in {"x", "d", "f/x", "x/x"}}
    \cup {<<"cp", "-r", ".", "x">>, <<"cp", "-r", "..", "x">>}
    \cup {<<"mv", "f">>, <<"mv", "x", "f">>, <<"mv", ".", "../x">>}
    \cup {<<"mv", "f", t>> : t \in {"x", "f", "d", "..", "f/x"}}
    \cup {<<"mv", "d", t>> : t \in {"x", "f", "x/x"}}
    \cup {<<"rm">>} \cup {<<"rm", p>> : p \in {"f", "d", "x", "..", "/"}}
    \cup {<<"rm", "-r", p>> : p \in {"f", "d", ".", "..", "/", "../..", "l"}}

Answers == {"y", "Y", "n", "yes", ""}

\* The model does not read a cp -r whose copy does not end, nor one whose
\* source tree holds a symbolic link.
Modelled(F, P, tokens) ==
    (/\ Len(tokens) = 4
     /\ tokens[1] = "cp"
     /\ tokens[2] = "-r"
     /\ IsDir(F, Resolve(F, JoinPath(P, tokens[3]))))
    => LET source == Resolve(F, JoinPath(P, tokens[3]))
           dest == Resolve(F, JoinPath(P, tokens[4]))
       IN  ~Runaway(F, source, dest) /\ ~HasLink(F, source)

(***************************************************************************)
(* The initial state: Shell() in one of the directories of a small tree.   *)
(***************************************************************************)
InitFS ==
    (<<>> :> Dir) @@ (<<"home">> :> Dir) @@ (<<"home", "d">> :> Dir)
    @@ (<<"home", "d", "f">> :> File("c1")) @@ (<<"home", "f">> :> File("c2"))
    @@ (<<"l">> :> Link(<<"home", "d">>))

StartDirs == {<<>>, <<"home">>, <<"home", "d">>}

Init ==
    /\ fs = InitFS
    /\ pwd \in StartDirs
    /\ log = <<>>
    /\ out = <<>>
    /\ pc = "prompt"
    /\ cur = <<>>
    /\ target = <<>>
    /\ outcome = "none"
    /\ err = "none"
    /\ asked = FALSE
    /\ resp = ""
    /\ calls = 0
    /\ exitReason = "none"
    /\ nread = 0
    /\ fs0 = fs
    /\ pwd0 = pwd
    /\ log0 = <<>>
    /\ out0 = <<>>
    /\ calls0 = 0
    /\ prev = [tokens |-> <<>>, outcome |-> "none", pwd0 |-> pwd, fs0 |-> fs]

\* input(prompt) of main returned the line with these tokens (or raised).
Read(tokens, printed) ==
    /\ cur' = tokens
    /\ prev' = [tokens |-> cur, outcome |-> outcome, pwd0 |-> pwd0, fs0 |-> fs0]
    /\ fs0' = fs
    /\ pwd0' = pwd
    /\ log0' = log
    /\ out0' = printed
    /\ calls0' = calls
    /\ asked' = FALSE
    /\ resp' = ""
    /\ err' = "none"
    /\ nread' = nread + 1

\* main: the line is exit
ReadExit(tokens) ==
    /\ pc = "prompt"
    /\ nread < MaxReads
    /\ IsExit(tokens)
    /\ Read(tokens, Append(out, MainPrompt(pwd)))
    /\ out' = Append(out, MainPrompt(pwd))
    /\ pc' = "done"
    /\ exitReason' = "exit"
    /\ outcome' = "exit"
    /\ UNCHANGED <<fs, pwd, log, target, calls>>

\* main: input() raises EOFError
ReadEOF ==
    /\ pc = "prompt"
    /\ nread < MaxReads
    /\ Read(<<>>, Append(out, MainPrompt(pwd)))
    /\ out' = Append(out, MainPrompt(pwd))
    /\ pc' = "done"
    /\ exitReason' = "eof"
    /\ outcome' = "eof"
    /\ UNCHANGED <<fs, pwd, log, target, calls>>

\* main: input() raises KeyboardInterrupt
ReadInterrupt ==
    /\ pc = "prompt"
    /\ nread < MaxReads
    /\ Read(<<>>, Append(out, MainPrompt(pwd)))
    /\ out' = out \o <<MainPrompt(pwd), Reminder>>
    /\ outcome' = "interrupted"
    /\ UNCHANGED <<fs, pwd, log, pc, target, calls, exitReason>>

\* execute_command with no tokens returns at once
ReadEmpty ==
    /\ pc = "prompt"
    /\ nread < MaxReads
    /\ Read(<<>>, Append(out, MainPrompt(pwd)))
    /\ out' = Append(out, MainPrompt(pwd))
    /\ outcome' = "empty"
    /\ UNCHANGED <<fs, pwd, log, pc, target, calls, exitReason>>

\* execute_command up to logger.info(line)
ReadCommand(tokens) ==
    /\ pc = "prompt"
    /\ nread < MaxReads
    /\ tokens # <<>>
    /\ ~IsExit(tokens)
    /\ Modelled(fs, pwd, tokens)
    /\ Read(tokens, Append(out, MainPrompt(pwd)))
    /\ out' = Append(out, MainPrompt(pwd))
    /\ log' = Append(log, JoinTokens(tokens))
    /\ pc' = "dispatch"
    /\ outcome' = "running"
    /\ UNCHANGED <<fs, pwd, target, calls, exitReason>>

\* The end of a handler call inside execute_command, and what main does with
\* an exception execute_command lets through.
Complete(r) ==
    /\ fs' = r.fs
    /\ pwd' = r.pwd
    /\ IF r.st = "ok"
       THEN /\ out' = out \o r.out
            /\ log' = log
            /\ pc' = "prompt"
            /\ outcome' = "ok"
            /\ err' = "none"
            /\ exitReason' = exitReason
       ELSE IF Catches(r.exc)
       THEN /\ out' = (out \o r.out) \o <<r.msg>>
            /\ log' = Append(log, ErrorEntry(r.msg))
            /\ pc' = "prompt"
            /\ outcome' = "failed"
            /\ err' = r.exc
            /\ exitReason' = exitReason
       ELSE IF r.exc = "KeyboardInterrupt"
       THEN /\ out' = (out \o r.out) \o <<Reminder>>
            /\ log' = log
            /\ pc' = "prompt"
            /\ outcome' = "interrupted"
            /\ err' = r.exc
            /\ exitReason' = exitReason
       ELSE IF r.exc = "EOFError"
       THEN /\ out' = out \o r.out
            /\ log' = log
            /\ pc' = "done"
            /\ outcome' = "propagated"
            /\ err' = r.exc
            /\ exitReason' = "eof"
       ELSE /\ out' = out \o r.out
            /\ log' = log
            /\ pc' = "crashed"
            /\ outcome' = "propagated"
            /\ err' = r.exc
            /\ exitReason' = r.exc

\* The unknown-command branch without its log entry.
DispatchUnknownUnlogged ==
    /\ pc = "dispatch"
    /\ ~IsCommand(cur[1])
    /\ out' = Append(out, UnknownError)
    /\ log' = log
    /\ pc' = "prompt"
    /\ outcome' = "failed"
    /\ err' = "UnknownCommand"
    /\ UNCHANGED <<fs, pwd, cur, target, asked, resp, calls, exitReason, nread,
                   fs0, pwd0, log0, out0, calls0, prev>>

\* execute_command: the first token is no command
DispatchUnknown ==
    /\ pc = "dispatch"
    /\ ~IsCommand(cur[1])
    /\ out' = Append(out, UnknownError)
    /\ log' = Append(log, ErrorEntry(UnknownError))
    /\ pc' = "prompt"
    /\ outcome' = "failed"
    /\ err' = "UnknownCommand"
    /\ UNCHANGED <<fs, pwd, cur, target, asked, resp, calls, exitReason, nread,
                   fs0, pwd0, log0, out0, calls0, prev>>

\* execute_command: self.commands[cmd](*args), up to its return, its
\* exception or the confirmation prompt of rm
Dispatch ==
    /\ pc = "dispatch"
    /\ IsCommand(cur[1])
    /\ calls' = calls + 1
    /\ LET r == Handler(cur[1], fs, pwd, Tail(cur))
       IN  IF r.st = "confirm"
           THEN /\ pc' = "confirm"
                /\ target' = r.arg
                /\ asked' = TRUE
                /\ out' = Append(out, ConfirmPrompt(r.arg))
                /\ UNCHANGED <<fs, pwd, log, outcome, err, exitReason>>
           ELSE /\ Complete(r)
                /\ UNCHANGED <<target, asked>>
    /\ UNCHANGED <<cur, resp, nread, fs0, pwd0, log0, out0, calls0, prev>>

\* rm: input() returned the answer
Confirm(answer) ==
    /\ pc = "confirm"
    /\ resp' = answer
    /\ Complete(rmAnswered(fs, pwd, target, answer))
    /\ UNCHANGED <<cur, target, asked, calls, nread, fs0, pwd0, log0, out0, calls0, prev>>

\* rm: input() raised EOFError
ConfirmEOF ==
    /\ pc = "confirm"
    /\ Complete(Raise(fs, pwd, <<>>, "EOFError", "EOF when reading a line"))
    /\ UNCHANGED <<cur, target, asked, resp, calls, nread, fs0, pwd0, log0, out0,
                   calls0, prev>>

\* rm: input() raised KeyboardInterrupt
ConfirmInterrupt ==
    /\ pc = "confirm"
    /\ Complete(Raise(fs, pwd, <<>>, "KeyboardInterrupt", ""))
    /\ UNCHANGED <<cur, target, asked, resp, calls, nread, fs0, pwd0, log0, out0,
                   calls0, prev>>

Next ==
    \/ \E tokens \in Lines : ReadExit(tokens)
    \/ \E tokens \in Lines : ReadCommand(tokens)
    \/ ReadEmpty
    \/ ReadEOF
    \/ ReadInterrupt
    \/ DispatchUnknown
    \/ Dispatch
    \/ \E answer \in Answers : Confirm(answer)
    \/ ConfirmEOF
    \/ ConfirmInterrupt

Spec == Init /\ [][Next]_vars

(***************************************************************************)
(* What the claims are stated with: the command read last, once            *)
(* execute_command has returned, and what its arguments named when it was  *)
(* read.                                                                   *)
(***************************************************************************)
Returned == cur # <<>> /\ pc = "prompt" /\ outcome \in {"ok", "failed"}

Ran(cmd) == Returned /\ cur[1] = cmd

\* The canonical path the i-th token named when the command was read.
Named(i) == Resolve(fs0, JoinPath(pwd0, cur[i]))

\* The tokens joined by single spaces, written out for the lengths read.
SpacedLine(tokens) ==
    CASE Len(tokens) = 1 -> tokens[1]
      [] Len(tokens) = 2 -> tokens[1] \o " " \o tokens[2]
      [] Len(tokens) = 3 -> tokens[1] \o " " \o tokens[2] \o " " \o tokens[3]
      [] Len(tokens) = 4 ->
             tokens[1] \o " " \o tokens[2] \o " " \o tokens[3] \o " " \o tokens[4]

Last(q) == q[Len(q)]

PwdValid(F, P) == P \in DOMAIN F /\ F[P].k = "dir"

Without(F, p) == [q \in {n \in DOMAIN F : ~IsPrefix(p, n)} |-> F[q]]

(***************************************************************************)
(* C1: every non-empty command adds its space-joined line to the log       *)
(* before the handler has changed the filesystem or the working directory; *)
(* a command that succeeds (a declined rm -r included) adds nothing more,  *)
(* a command that fails adds exactly "ERROR: <message>", the message being *)
(* the one printed; an empty line adds nothing.                            *)
(***************************************************************************)
C1_LogBlocks ==
    /\ pc \in {"dispatch", "confirm"} =>
           /\ log = Append(log0, SpacedLine(cur))
           /\ fs = fs0
           /\ pwd = pwd0
    /\ (Returned /\ outcome = "ok") => log = Append(log0, SpacedLine(cur))
    /\ (Returned /\ outcome = "failed") =>
           log = log0 \o <<SpacedLine(cur), "ERROR: " \o Last(out)>>
    /\ outcome = "empty" => log = log0

\* C1, witness: a declined rm -r after a failed command: three log entries.
C1_Witness ==
    /\ Returned
    /\ outcome = "ok"
    /\ asked
    /\ resp = "n"
    /\ prev.outcome = "failed"
    /\ Len(log) = 3

C3_UnknownCommand ==
    (/\ cur # <<>>
     /\ cur[1] \notin {"ls", "cd", "cat", "cp", "mv", "rm"}
     /\ outcome # "exit") =>
        /\ calls = calls0
        /\ fs = fs0
        /\ pwd = pwd0
        /\ pc \in {"dispatch", "prompt"}
        /\ pc = "prompt" =>
               /\ out = Append(out0, "Unknown command")
               /\ log = log0 \o <<SpacedLine(cur), "ERROR: Unknown command">>
               /\ outcome = "failed"

\* C3, witness: LS d, read after cd d, was answered Unknown command.
C3_Witness ==
    /\ Returned
    /\ cur = <<"LS", "d">>
    /\ Last(log) = "ERROR: Unknown command"
    /\ prev.tokens = <<"cd", "d">>

(***************************************************************************)
(* The round trip of cd (C4).                                               *)
(***************************************************************************)
\* cd .. has returned, and the command before it was a successful cd d from
\* prev.pwd0, d naming an entry of prev.pwd0.
RoundTrip ==
    /\ Returned
    /\ cur = <<"cd", "..">>
    /\ Len(prev.tokens) = 2
    /\ prev.tokens[1] = "cd"
    /\ prev.outcome = "ok"
    /\ ParseArg(prev.tokens[2]) = [abs |-> FALSE, comps |-> <<prev.tokens[2]>>]
    /\ Append(prev.pwd0, prev.tokens[2]) \in DOMAIN prev.fs0

\* C4 as claimed: for every entry d of P for which cd d succeeds, cd d and
\* then cd .. leave the working directory equal to P.
C4_RoundTripAnyEntry == RoundTrip => pwd = prev.pwd0

\* C4 as amended: for every entry d of P that is a directory itself, not a
\* symbolic link to one, cd d and then cd .. leave the working directory
\* equal to P.
C4_RoundTripRealDir ==
    (RoundTrip /\ prev.fs0[Append(prev.pwd0, prev.tokens[2])].k = "dir") =>
        /\ outcome = "ok"
        /\ pwd = prev.pwd0

\* C4, witness: cd d from /home, then cd .., back in /home.
C4_Witness ==
    /\ RoundTrip
    /\ prev.tokens = <<"cd", "d">>
    /\ prev.pwd0 = <<"home">>
    /\ pwd = <<"home">>

(***************************************************************************)
(* C5: the working directory changes only by a successful cd, which sets   *)
(* it to a canonical path that exists and is a directory; every other      *)
(* command, every failed cd, every unknown or empty command leaves it.     *)
(***************************************************************************)
C5_PwdFrame ==
    /\ pwd # pwd0 => (Ran("cd") /\ outcome = "ok" /\ Len(cur) = 2)
    /\ (Ran("cd") /\ outcome = "ok") =>
           /\ PwdValid(fs, pwd)
           /\ Resolve(fs, pwd) = pwd
           /\ fs = fs0
           /\ cur[2] = "~" => pwd = <<"home">>
           /\ cur[2] = ".." => pwd = Parent(pwd0)
    /\ (Ran("cd") /\ outcome = "failed") =>
           err \in {"ValueError", "FileNotFoundError", "NotADirectoryError"}

\* C5, witness: cd l from / moved the working directory to the link's target.
C5_Witness ==
    /\ Ran("cd")
    /\ outcome = "ok"
    /\ cur[2] = "l"
    /\ pwd0 = <<>>
    /\ pwd = <<"home", "d">>

\* An rm with one path argument that names the root or the parent of the
\* working directory.
Guarded ==
    /\ cur # <<>>
    /\ cur[1] = "rm"
    /\ Len(StripR(Tail(cur))) = 1
    /\ Resolve(fs0, JoinPath(pwd0, StripR(Tail(cur))[1])) \in {<<>>, Parent(pwd0)}

(***************************************************************************)
(* C6: rm with one path argument (with or without -r) whose canonical path *)
(* is the root or the parent of the working directory fails with           *)
(* PermissionError, asks nothing and deletes nothing.                      *)
(***************************************************************************)
C6_RmGuard ==
    Guarded =>
        /\ ~asked
        /\ pc \in {"dispatch", "prompt"}
        /\ fs = fs0
        /\ pc = "prompt" => (outcome = "failed" /\ err = "PermissionError")

\* C6, witness: rm -r .. in /home/d was refused for the parent, which is not the root.
C6_Witness ==
    /\ Guarded
    /\ Returned
    /\ cur = <<"rm", "-r", "..">>
    /\ pwd0 = <<"home", "d">>
    /\ PwdValid(fs0, <<"home">>)
    /\ err = "PermissionError"

\* An rm with one path argument that has returned, the path it named, and
\* whether that path exists and passes the guard.
RmOne == Ran("rm") /\ Len(StripR(Tail(cur))) = 1

RmPath == Resolve(fs0, JoinPath(pwd0, StripR(Tail(cur))[1]))

RmPasses == RmPath \in DOMAIN fs0 /\ RmPath \notin {<<>>, Parent(pwd0)}

(***************************************************************************)
(* C7: rm -r on an existing directory that passes the guard asks, and      *)
(* deletes the tree iff the answer is y or Y; after any other answer       *)
(* nothing is deleted, nothing but the prompt is printed and no ERROR      *)
(* entry is logged.  A regular file is deleted without a prompt.           *)
(***************************************************************************)
C7_RmConfirm ==
    /\ (RmOne /\ RmPasses /\ fs0[RmPath].k = "dir" /\ HasR(Tail(cur))) =>
           /\ asked
           /\ resp \in {"y", "Y"} => (outcome = "ok" /\ fs = Without(fs0, RmPath))
           /\ resp \notin {"y", "Y"} =>
                  /\ outcome = "ok" \/ err = "EOFError"
                  /\ fs = fs0
                  /\ outcome = "ok" =>
                         /\ Len(out) = Len(out0) + 1
                         /\ log = Append(log0, SpacedLine(cur))
    /\ (pc = "prompt" /\ asked /\ outcome = "ok") =>
           (RmPath \in DOMAIN fs <=> resp \notin {"y", "Y"})
    /\ (RmOne /\ RmPasses /\ fs0[RmPath].k = "file") =>
           /\ ~asked
           /\ outcome = "ok"
           /\ fs = Without(fs0, RmPath)

\* C7, witness: rm -r of /home/d answered Y deleted the tree and nothing else.
C7_Witness ==
    /\ RmOne
    /\ asked
    /\ resp = "Y"
    /\ RmPath = <<"home", "d">>
    /\ <<"home", "d", "f">> \notin DOMAIN fs
    /\ <<"home", "f">> \in DOMAIN fs

(***************************************************************************)
(* mv of two paths (C8).                                                   *)
(***************************************************************************)
MvTwo == Ran("mv") /\ Len(cur) = 3

\* C8 as claimed: whenever mv of an existing source returns without failure,
\* the source path no longer exists and the destination path holds what the
\* source held; mv of a source that does not exist fails with
\* FileNotFoundError and changes nothing.
C8_MvRelocatesAlways ==
    MvTwo =>
        IF Named(2) \in DOMAIN fs0
        THEN outcome = "ok" =>
                 /\ Named(2) \notin DOMAIN fs
                 /\ Named(3) \in DOMAIN fs
                 /\ Subtree(fs, Named(3)) = Subtree(fs0, Named(2))
        ELSE /\ outcome = "failed"
             /\ err = "FileNotFoundError"
             /\ fs = fs0

\* C8 as amended: the same, for a destination that is neither an existing
\* directory nor the source itself.
C8_MvRelocates ==
    MvTwo =>
        IF Named(2) \in DOMAIN fs0
        THEN (outcome = "ok" /\ Named(3) # Named(2) /\ ~IsDir(fs0, Named(3))) =>
                 /\ Named(2) \notin DOMAIN fs
                 /\ Named(3) \in DOMAIN fs
                 /\ Subtree(fs, Named(3)) = Subtree(fs0, Named(2))
        ELSE /\ outcome = "failed"
             /\ err = "FileNotFoundError"
             /\ fs = fs0

\* C8, witness: mv d x/x moved the tree of d below a directory it created.
C8_Witness ==
    /\ MvTwo
    /\ cur = <<"mv", "d", "x/x">>
    /\ pwd0 = <<"home">>
    /\ outcome = "ok"
    /\ <<"home", "d">> \notin DOMAIN fs
    /\ fs[<<"home", "x", "x", "f">>] = File("c1")

(***************************************************************************)
(* cp of a directory (C9).                                                 *)
(***************************************************************************)
CpPlain == Ran("cp") /\ Len(cur) = 3 /\ cur[2] # "-r" /\ IsDir(fs0, Named(2))

CpTree == Ran("cp") /\ Len(cur) = 4 /\ cur[2] = "-r" /\ IsDir(fs0, Named(3))

\* C9 as claimed: cp of a directory without -r fails with IsADirectoryError
\* and changes nothing; cp -r of a directory to a destination that does not
\* exist succeeds, the destination then holds the tree of the source and the
\* source tree is unchanged.
C9_CpTreeAnyNewDest ==
    /\ CpPlain => (outcome = "failed" /\ err = "IsADirectoryError" /\ fs = fs0)
    /\ (CpTree /\ Named(4) \notin DOMAIN fs0) =>
           /\ outcome = "ok"
           /\ Subtree(fs, Named(4)) = Subtree(fs0, Named(3))
           /\ Subtree(fs, Named(3)) = Subtree(fs0, Named(3))

\* C9 as amended: the second half holds for a destination that does not
\* exist, lies outside the source tree and has no regular file above it, the
\* source tree holding no symbolic link.
C9_CpTree ==
    /\ CpPlain => (outcome = "failed" /\ err = "IsADirectoryError" /\ fs = fs0)
    /\ (/\ CpTree
        /\ Named(4) \notin DOMAIN fs0
        /\ ~IsPrefix(Named(3), Named(4))
        /\ fs0[ExistingAncestor(fs0, Named(4))].k = "dir"
        /\ ~HasLink(fs0, Named(3))) =>
           /\ outcome = "ok"
           /\ Subtree(fs, Named(4)) = Subtree(fs0, Named(3))
           /\ Subtree(fs, Named(3)) = Subtree(fs0, Named(3))
           /\ \A q \in DOMAIN fs0 : q \in DOMAIN fs /\ fs[q] = fs0[q]

\* C9, witness: cp -r d x/x copied the tree of d and left d.
C9_Witness ==
    /\ CpTree
    /\ cur = <<"cp", "-r", "d", "x/x">>
    /\ pwd0 = <<"home">>
    /\ outcome = "ok"
    /\ fs[<<"home", "x", "x", "f">>] = File("c1")
    /\ fs[<<"home", "d", "f">>] = File("c1")

(***************************************************************************)
(* The validity of the working directory (C10).                            *)
(***************************************************************************)
\* C10 as claimed: after any sequence of commands the working directory is
\* an existing directory.
C10_PwdAlwaysValid == PwdValid(fs, pwd)

\* rm -r answered y, or a successful mv, took the working directory or a
\* directory above it.
TookPwd ==
    /\ Returned
    /\ outcome = "ok"
    /\ \/ cur[1] = "mv" /\ Len(cur) = 3 /\ IsPrefix(Named(2), pwd0)
       \/ /\ cur[1] = "rm"
          /\ asked
          /\ resp \in {"y", "Y"}
          /\ IsPrefix(RmPath, pwd0)

\* C10 as amended: a working directory that is an existing directory stays
\* one over every command but a successful mv, or an rm -r answered y, of
\* the working directory itself or of a directory above it.
C10_PwdValidUnlessTaken ==
    (PwdValid(fs0, pwd0) /\ ~PwdValid(fs, pwd)) => TookPwd

\* C10, witness: mv . ../x in /home/d left the working directory stale.
C10_Witness ==
    /\ TookPwd
    /\ cur = <<"mv", ".", "../x">>
    /\ pwd = <<"home", "d">>
    /\ ~PwdValid(fs, pwd)
    /\ PwdValid(fs, <<"home", "x">>)

=============================================================================
